---- MODULE Spec2Model ----
(***************************************************************************)
(* Threshold Schnorr signatures over Z_P^* with Shamir secret sharing.     *)
(*   crypto/schnorr.py            keccak_challenge, _det_k, sign_message,  *)
(*                                verify_signature                         *)
(*   crypto/shamir.py             _eval_poly, generate_shares,             *)
(*                                _lagrange_interpolation_at_zero,         *)
(*                                reconstruct_secret                       *)
(*   crypto/threshold_schnorr.py  threshold_sign, pubkey_from_secret       *)
(*                                                                         *)
(* crypto/config.py (PRIME, GENERATOR) is not part of the sources at hand; *)
(* the field is instantiated with a small prime and a generator of the     *)
(* full group Z_P^*, as the data model requires.  Python integers are      *)
(* unbounded, so no arithmetic here wraps.                                 *)
(*                                                                         *)
(* Keccak-256 is an external function.  It is modelled as a function that  *)
(* is fixed but unknown: every input queried for the first time gets an    *)
(* arbitrary answer, which is recorded and returned for that input from    *)
(* then on (kecText for keccak(text=m), kec64 for keccak of the 64-byte    *)
(* string int32 || digest).                                                *)
(***************************************************************************)
EXTENDS Integers, Sequences, FiniteSets, TLC

VARIABLES pc, kecText, kec64, sgn, ver, shr, rec, tsg, sgn2, tsg2

vars == <<pc, kecText, kec64, sgn, ver, shr, rec, tsg, sgn2, tsg2>>

-----------------------------------------------------------------------------
(* Field parameters (crypto/config.py) *)

PRIME == 5

GENERATOR == 2

(* Bounds of the model.  The number of shares n stays below PRIME, as it    *)
(* does for every list of shares that can be built when PRIME has 256 bits. *)

NumMessages == 2

NumDigests == 2

HashMax == 5

MaxN == 3

MaxSigners == 2

MaxLen == 2

MaxY == 1

Messages == 1..NumMessages

Digests == 1..NumDigests

HashVals == 0..HashMax

Unset == -1

\* integers handed to verify_signature: 0, negatives, and values >= PRIME
IntArgs == (-1)..(PRIME + 1)

-----------------------------------------------------------------------------
(* Python built-ins *)

RECURSIVE pow(_, _, _)
\* pow(base, exp, mod) for exp >= 0
pow(base, exp, mod) ==
    IF exp = 0 THEN 1 % mod
    ELSE (base * pow(base, exp - 1, mod)) % mod

\* the keccak oracle: a first query may be answered by any value of the
\* range, a repeated one is answered as before
Answers(f, x, range) == IF f[x] = Unset THEN range ELSE {f[x]}

Ext(f, x, a) == [f EXCEPT ![x] = a]

-----------------------------------------------------------------------------
(* crypto/schnorr.py *)

keccak_message(T, message) == T[message]

\* Returns (h, msg_hash), or raises when r is out of range.
keccak_challenge(T, K, r, message) ==
    IF ~(0 < r /\ r < PRIME)
    THEN [kind |-> "RangeError", h |-> 0, msg_hash |-> 0]
    ELSE LET msg_hash == keccak_message(T, message)
         IN  [kind |-> "ok", h |-> K[<<r, msg_hash>>] % PRIME, msg_hash |-> msg_hash]

\* variant: the reduced seed is used as it is, without the + 1
_det_k_no_offset(K, priv, msg_hash) == K[<<priv, msg_hash>>] % (PRIME - 2)

_det_k(K, priv, msg_hash) == (K[<<priv, msg_hash>>] % (PRIME - 2)) + 1

\* the values secrets.randbelow(PRIME - 2) + 1 can yield; no draw is made in
\* deterministic mode
RandomNonces(deterministic) == IF deterministic THEN {0} ELSE 1..(PRIME - 2)

\* krand is the value drawn in random mode
sign_message(T, K, priv, message, deterministic, krand) ==
    IF ~(0 < priv /\ priv < PRIME)
    THEN [kind |-> "RangeError", r |-> 0, s |-> 0, k |-> 0]
    ELSE LET msg_hash == keccak_message(T, message)
             k == IF deterministic THEN _det_k(K, priv, msg_hash) ELSE krand
             r == pow(GENERATOR, k, PRIME)
             h == keccak_challenge(T, K, r, message).h
             s == (k + h * priv) % (PRIME - 1)
         IN  [kind |-> "ok", r |-> r, s |-> s, k |-> k]

\* variant: the range check on r is missing
verify_signature_no_r_check(T, K, pub, message, r, s) ==
    IF ~(0 < pub /\ pub < PRIME) THEN "false"
    ELSE IF ~(0 < s /\ s < PRIME - 1) THEN "false"
    ELSE LET c == keccak_challenge(T, K, r, message)
         IN  IF c.kind # "ok" THEN "raise"
             ELSE LET left == pow(GENERATOR, s, PRIME)
                      right == (r * pow(pub, c.h, PRIME)) % PRIME
                  IN  IF left = right THEN "true" ELSE "false"

\* variant: s is checked against PRIME instead of the group order PRIME - 1
verify_signature_s_below_prime(T, K, pub, message, r, s) ==
    IF ~(0 < pub /\ pub < PRIME) THEN "false"
    ELSE IF ~(0 < r /\ r < PRIME) THEN "false"
    ELSE IF ~(0 < s /\ s < PRIME) THEN "false"
    ELSE LET c == keccak_challenge(T, K, r, message)
         IN  IF c.kind # "ok" THEN "raise"
             ELSE LET left == pow(GENERATOR, s, PRIME)
                      right == (r * pow(pub, c.h, PRIME)) % PRIME
                  IN  IF left = right THEN "true" ELSE "false"

verify_signature(T, K, pub, message, r, s) ==
    IF ~(0 < pub /\ pub < PRIME) THEN "false"
    ELSE IF ~(0 < r /\ r < PRIME) THEN "false"
    ELSE IF ~(0 < s /\ s < PRIME - 1) THEN "false"
    ELSE LET c == keccak_challenge(T, K, r, message)
         IN  IF c.kind # "ok" THEN "raise"
             ELSE LET left == pow(GENERATOR, s, PRIME)
                      right == (r * pow(pub, c.h, PRIME)) % PRIME
                  IN  IF left = right THEN "true" ELSE "false"

\* The oracles that the keccak queries of sign_message(priv, message, ...)
\* can leave behind: the digest, the nonce seed (deterministic mode), the
\* challenge.
SignOracles(T, K, priv, message, deterministic, krand) ==
    IF ~(0 < priv /\ priv < PRIME) THEN {[T |-> T, K |-> K]}
    ELSE UNION {
           LET T1 == Ext(T, message, d)
           IN  UNION {
                 LET K1 == IF deterministic THEN Ext(K, <<priv, d>>, seed) ELSE K
                     k == IF deterministic THEN _det_k(K1, priv, d) ELSE krand
                     r == pow(GENERATOR, k, PRIME)
                 IN  {[T |-> T1, K |-> Ext(K1, <<r, d>>, h)] :
                         h \in Answers(K1, <<r, d>>, HashVals)} :
                 seed \in IF deterministic THEN Answers(K, <<priv, d>>, HashVals) ELSE {0}} :
           d \in Answers(T, message, Digests)}

\* The oracles that the keccak queries of verify_signature(pub, message, r, s)
\* can leave behind.
VerifyOracles(T, K, pub, message, r, s) ==
    IF ~(0 < pub /\ pub < PRIME) \/ ~(0 < r /\ r < PRIME) \/ ~(0 < s /\ s < PRIME - 1)
    THEN {[T |-> T, K |-> K]}
    ELSE UNION {
           {[T |-> Ext(T, message, d), K |-> Ext(K, <<r, d>>, h)] :
               h \in Answers(K, <<r, d>>, HashVals)} :
           d \in Answers(T, message, Digests)}

-----------------------------------------------------------------------------
(* crypto/shamir.py *)

\* require_t=None
None == -1

RECURSIVE _eval_poly(_, _)
\* Horner's method over reversed(coeffs); coeffs[1] is the constant term
_eval_poly(coeffs, x) ==
    IF coeffs = <<>> THEN 0
    ELSE (_eval_poly(Tail(coeffs), x) * x + Head(coeffs)) % PRIME

\* the values secrets.randbelow(PRIME - 1) + 1 can yield for one coefficient
CoeffDomain == 1..(PRIME - 1)

\* variant: x runs over range(n) instead of range(1, n + 1)
generate_shares_from_zero(secret, n, t, rnd) ==
    IF ~(1 <= t /\ t <= n) THEN [kind |-> "ParameterError", shares |-> <<>>]
    ELSE IF ~(0 < secret /\ secret < PRIME) THEN [kind |-> "RangeError", shares |-> <<>>]
    ELSE LET coeffs == <<secret>> \o rnd
         IN  [kind |-> "ok", shares |-> [x \in 1..n |-> <<x - 1, _eval_poly(coeffs, x - 1)>>]]

\* rnd is the list of the t-1 values drawn from secrets
generate_shares(secret, n, t, rnd) ==
    IF ~(1 <= t /\ t <= n) THEN [kind |-> "ParameterError", shares |-> <<>>]
    ELSE IF ~(0 < secret /\ secret < PRIME) THEN [kind |-> "RangeError", shares |-> <<>>]
    ELSE LET coeffs == <<secret>> \o rnd
         IN  [kind |-> "ok", shares |-> [x \in 1..n |-> <<x, _eval_poly(coeffs, x)>>]]

RECURSIVE PI(_)
\* reduce(lambda a, b: (a * b) % PRIME, vals, 1)
PI(vals) ==
    IF vals = <<>> THEN 1
    ELSE (PI(SubSeq(vals, 1, Len(vals) - 1)) * vals[Len(vals)]) % PRIME

\* [xj for j, xj in enumerate(x_s) if j != i]
Others(x_s, i) == [j \in 1..(Len(x_s) - 1) |-> IF j < i THEN x_s[j] ELSE x_s[j + 1]]

Denom(x_s, i) ==
    LET others == Others(x_s, i)
    IN  PI([j \in 1..Len(others) |-> (x_s[i] - others[j]) % PRIME])

\* variant: the product is taken over x_j instead of -x_j
Numer_unnegated(x_s, i) ==
    LET others == Others(x_s, i)
    IN  PI([j \in 1..Len(others) |-> others[j] % PRIME])

Numer(x_s, i) ==
    LET others == Others(x_s, i)
    IN  PI([j \in 1..Len(others) |-> (0 - others[j]) % PRIME])

\* inv_denom = pow(denom, PRIME - 2, PRIME); li0 = (numer * inv_denom) % PRIME
Li0(x_s, i) == (Numer(x_s, i) * pow(Denom(x_s, i), PRIME - 2, PRIME)) % PRIME

RECURSIVE LagrangeSum(_, _, _)
\* the accumulation loop, after its first i iterations
LagrangeSum(x_s, y_s, i) ==
    IF i = 0 THEN 0
    ELSE (LagrangeSum(x_s, y_s, i - 1) + y_s[i] * Li0(x_s, i)) % PRIME

\* variant: only x = 0 is rejected, duplicates are not
_lagrange_interpolation_at_zero_no_dup_check(x_s, y_s) ==
    IF x_s = <<>> \/ y_s = <<>> \/ Len(x_s) # Len(y_s)
    THEN [kind |-> "InvalidPointsError", value |-> 0]
    ELSE IF \E i \in 1..Len(x_s) : x_s[i] = 0
    THEN [kind |-> "DuplicateOrZeroCoordinateError", value |-> 0]
    ELSE [kind |-> "ok", value |-> LagrangeSum(x_s, y_s, Len(x_s))]

_lagrange_interpolation_at_zero(x_s, y_s) ==
    IF x_s = <<>> \/ y_s = <<>> \/ Len(x_s) # Len(y_s)
    THEN [kind |-> "InvalidPointsError", value |-> 0]
    ELSE IF (\E i \in 1..Len(x_s) : x_s[i] = 0)
            \/ Cardinality({x_s[i] : i \in 1..Len(x_s)}) # Len(x_s)
    THEN [kind |-> "DuplicateOrZeroCoordinateError", value |-> 0]
    ELSE [kind |-> "ok", value |-> LagrangeSum(x_s, y_s, Len(x_s))]

reconstruct_secret(shares, require_t) ==
    IF require_t # None /\ Len(shares) < require_t
    THEN [kind |-> "InsufficientSharesError", value |-> 0]
    ELSE IF shares = <<>> THEN [kind |-> "EmptyInputError", value |-> 0]
    ELSE _lagrange_interpolation_at_zero([i \in 1..Len(shares) |-> shares[i][1]],
                                         [i \in 1..Len(shares) |-> shares[i][2]])

-----------------------------------------------------------------------------
(* crypto/threshold_schnorr.py *)

pubkey_from_secret(secret) ==
    IF ~(0 < secret /\ secret < PRIME) THEN [kind |-> "RangeError", value |-> 0]
    ELSE [kind |-> "ok", value |-> pow(GENERATOR, secret, PRIME)]

\* variant: require_t is ignored
threshold_sign_no_require(T, K, shares, message, deterministic, krand, require_t) ==
    LET priv == reconstruct_secret(shares, None)
    IN  IF priv.kind # "ok"
        THEN [kind |-> priv.kind, r |-> 0, s |-> 0, msg_hash |-> 0, k |-> 0]
        ELSE IF ~(0 < priv.value /\ priv.value < PRIME)
        THEN [kind |-> "RangeError", r |-> 0, s |-> 0, msg_hash |-> 0, k |-> 0]
        ELSE LET sig == sign_message(T, K, priv.value, message, deterministic, krand)
             IN  [kind |-> "ok", r |-> sig.r, s |-> sig.s,
                  msg_hash |-> keccak_challenge(T, K, sig.r, message).msg_hash,
                  k |-> sig.k]

\* variant: signs with the y of the first share instead of the reconstructed
\* secret
threshold_sign_first_share(T, K, shares, message, deterministic, krand, require_t) ==
    IF require_t # None /\ Len(shares) < require_t
    THEN [kind |-> "InsufficientSharesError", r |-> 0, s |-> 0, msg_hash |-> 0, k |-> 0]
    ELSE LET priv == reconstruct_secret(shares, None)
         IN  IF priv.kind # "ok"
             THEN [kind |-> priv.kind, r |-> 0, s |-> 0, msg_hash |-> 0, k |-> 0]
             ELSE IF ~(0 < shares[1][2] /\ shares[1][2] < PRIME)
             THEN [kind |-> "RangeError", r |-> 0, s |-> 0, msg_hash |-> 0, k |-> 0]
             ELSE LET sig == sign_message(T, K, shares[1][2], message, deterministic, krand)
                  IN  [kind |-> "ok", r |-> sig.r, s |-> sig.s,
                       msg_hash |-> keccak_challenge(T, K, sig.r, message).msg_hash,
                       k |-> sig.k]

threshold_sign(T, K, shares, message, deterministic, krand, require_t) ==
    IF require_t # None /\ Len(shares) < require_t
    THEN [kind |-> "InsufficientSharesError", r |-> 0, s |-> 0, msg_hash |-> 0, k |-> 0]
    ELSE LET priv == reconstruct_secret(shares, None)
         IN  IF priv.kind # "ok"
             THEN [kind |-> priv.kind, r |-> 0, s |-> 0, msg_hash |-> 0, k |-> 0]
             ELSE IF ~(0 < priv.value /\ priv.value < PRIME)
             THEN [kind |-> "RangeError", r |-> 0, s |-> 0, msg_hash |-> 0, k |-> 0]
             ELSE LET sig == sign_message(T, K, priv.value, message, deterministic, krand)
                  IN  [kind |-> "ok", r |-> sig.r, s |-> sig.s,
                       msg_hash |-> keccak_challenge(T, K, sig.r, message).msg_hash,
                       k |-> sig.k]

\* The oracles that the keccak queries of threshold_sign(shares, message, ...)
\* can leave behind.
ThresholdOracles(T, K, shares, message, deterministic, krand, require_t) ==
    IF require_t # None /\ Len(shares) < require_t THEN {[T |-> T, K |-> K]}
    ELSE LET priv == reconstruct_secret(shares, None)
         IN  IF priv.kind # "ok" THEN {[T |-> T, K |-> K]}
             ELSE SignOracles(T, K, priv.value, message, deterministic, krand)

-----------------------------------------------------------------------------
(* State: which call was made last, the keccak answers given so far, and    *)
(* the arguments and result of each call.                                   *)

NoSig == [kind |-> "none", priv |-> 0, msg |-> 0, det |-> FALSE, r |-> 0, s |-> 0, k |-> 0]

NoVer == [pub |-> 0, msg |-> 0, r |-> 0, s |-> 0, result |-> "none"]

NoShr == [kind |-> "none", secret |-> 0, n |-> 0, t |-> 0, shares |-> <<>>]

NoRec == [kind |-> "none", shares |-> <<>>, require_t |-> None, value |-> 0]

NoTsg == [kind |-> "none", shares |-> <<>>, require_t |-> None, msg |-> 0, det |-> FALSE,
          r |-> 0, s |-> 0, msg_hash |-> 0, k |-> 0]

\* lists of distinct positions of a list of n shares, in any order
Picks(n) == UNION {{f \in [1..k -> 1..n] : \A i, j \in 1..k : i # j => f[i] # f[j]} : k \in 0..n}

\* x-coordinates a caller may hand in: zero, small ones, and ones >= PRIME
XArgs == {0, 1, 2, PRIME, PRIME + 1}

YArgs == 0..MaxY

ShareLists == UNION {[1..k -> XArgs \X YArgs] : k \in 0..MaxLen}

RequireArgs == {None} \cup (0..(MaxN + 1))

\* lists of positions of a list of n shares, in increasing order
Slices(n) == {p \in Picks(n) : \A i, j \in 1..Len(p) : i < j => p[i] < p[j]}

Init ==
    /\ pc = "start"
    /\ kecText = [m \in Messages |-> Unset]
    /\ kec64 = [x \in (1..(PRIME - 1)) \X Digests |-> Unset]
    /\ sgn = NoSig
    /\ ver = NoVer
    /\ shr = NoShr
    /\ rec = NoRec
    /\ tsg = NoTsg
    /\ sgn2 = NoSig
    /\ tsg2 = NoTsg

\* r, s = sign_message(priv, message, deterministic=...)
SignMessage ==
    /\ pc = "start"
    /\ \E priv \in 0..PRIME, message \in Messages, deterministic \in BOOLEAN :
         \E krand \in RandomNonces(deterministic) :
         \E o \in SignOracles(kecText, kec64, priv, message, deterministic, krand) :
             /\ kecText' = o.T
             /\ kec64' = o.K
             /\ sgn' = [priv |-> priv, msg |-> message, det |-> deterministic]
                          @@ sign_message(o.T, o.K, priv, message, deterministic, krand)
    /\ pc' = "signed"
    /\ UNCHANGED <<ver, shr, rec, tsg, sgn2, tsg2>>

\* the call verify_signature(pub, message, r, s), recorded with its result
DoVerify(pub, message, r, s) ==
    \E o \in VerifyOracles(kecText, kec64, pub, message, r, s) :
        /\ kecText' = o.T
        /\ kec64' = o.K
        /\ ver' = [pub |-> pub, msg |-> message, r |-> r, s |-> s,
                   result |-> verify_signature(o.T, o.K, pub, message, r, s)]

\* verify_signature on a signature just made, as it is (which = 0) or with
\* exactly one of pub, r, s (which = 1, 2, 3) or the message replaced
VerifySigned ==
    /\ pc = "signed"
    /\ sgn.kind = "ok"
    /\ LET pub == pow(GENERATOR, sgn.priv, PRIME)
       IN  \/ \E which \in 0..3, v \in IntArgs :
                DoVerify(IF which = 1 THEN v ELSE pub, sgn.msg,
                         IF which = 2 THEN v ELSE sgn.r,
                         IF which = 3 THEN v ELSE sgn.s)
           \/ \E message \in Messages : DoVerify(pub, message, sgn.r, sgn.s)
    /\ pc' = "verified"
    /\ UNCHANGED <<sgn, shr, rec, tsg, sgn2, tsg2>>

\* verify_signature on arbitrary integers
VerifyAny ==
    /\ pc = "start"
    /\ \E pub \in IntArgs, message \in Messages, r \in IntArgs, s \in IntArgs :
         DoVerify(pub, message, r, s)
    /\ pc' = "verified"
    /\ UNCHANGED <<sgn, shr, rec, tsg, sgn2, tsg2>>

\* shares = generate_shares(secret, n, t)
GenerateShares ==
    /\ pc = "start"
    /\ \E secret \in 0..PRIME, n \in 1..MaxN, t \in 0..(MaxN + 1) :
         \E rnd \in [1..(IF t >= 1 /\ t <= n THEN t - 1 ELSE 0) -> CoeffDomain] :
            shr' = [secret |-> secret, n |-> n, t |-> t]
                      @@ generate_shares(secret, n, t, rnd)
    /\ pc' = "shared"
    /\ UNCHANGED <<kecText, kec64, sgn, ver, rec, tsg, sgn2, tsg2>>

\* the call reconstruct_secret(shares, require_t=...), recorded with its result
DoReconstruct(shares, require_t) ==
    rec' = [shares |-> shares, require_t |-> require_t]
              @@ reconstruct_secret(shares, require_t)

\* reconstruct_secret on some of the generated shares, in any order
ReconstructSecret ==
    /\ pc = "shared"
    /\ shr.kind = "ok"
    /\ \E p \in Picks(shr.n), require_t \in RequireArgs :
         DoReconstruct([i \in 1..Len(p) |-> shr.shares[p[i]]], require_t)
    /\ pc' = "reconstructed"
    /\ UNCHANGED <<kecText, kec64, sgn, ver, shr, tsg, sgn2, tsg2>>

\* reconstruct_secret on an arbitrary list of shares
ReconstructAny ==
    /\ pc = "start"
    /\ \E shares \in ShareLists, require_t \in RequireArgs :
         DoReconstruct(shares, require_t)
    /\ pc' = "reconstructed"
    /\ UNCHANGED <<kecText, kec64, sgn, ver, shr, tsg, sgn2, tsg2>>

\* r, s, msg_hash = threshold_sign(shares, message, deterministic=..., require_t=...)
\* on some of the generated shares, with no required number or the threshold t;
\* explored for sharings among at most MaxSigners holders
ThresholdSign ==
    /\ pc = "shared"
    /\ shr.kind = "ok"
    /\ shr.n <= MaxSigners
    /\ \E p \in Slices(shr.n), require_t \in {None, shr.t}, message \in Messages,
          deterministic \in BOOLEAN :
         \E krand \in RandomNonces(deterministic) :
         LET shares == [i \in 1..Len(p) |-> shr.shares[p[i]]]
         IN
         \E o \in ThresholdOracles(kecText, kec64, shares, message, deterministic,
                                   krand, require_t) :
             /\ kecText' = o.T
             /\ kec64' = o.K
             /\ tsg' = [shares |-> shares, require_t |-> require_t, msg |-> message,
                        det |-> deterministic]
                          @@ threshold_sign(o.T, o.K, shares, message, deterministic,
                                            krand, require_t)
    /\ pc' = "tsigned"
    /\ UNCHANGED <<sgn, ver, shr, rec, sgn2, tsg2>>

\* a second sign_message(priv, message, deterministic=...) with the key and
\* message of the first call, in either nonce mode
SignAgain ==
    /\ pc = "signed"
    /\ sgn.kind = "ok"
    /\ \E deterministic \in BOOLEAN :
         \E krand \in RandomNonces(deterministic) :
         \E o \in SignOracles(kecText, kec64, sgn.priv, sgn.msg, deterministic, krand) :
             /\ kecText' = o.T
             /\ kec64' = o.K
             /\ sgn2' = [priv |-> sgn.priv, msg |-> sgn.msg, det |-> deterministic]
                           @@ sign_message(o.T, o.K, sgn.priv, sgn.msg, deterministic, krand)
    /\ pc' = "signed2"
    /\ UNCHANGED <<sgn, ver, shr, rec, tsg, tsg2>>

\* r, s, msg_hash = threshold_sign(shares[:t], message, deterministic=True,
\* require_t=t); explored for sharings among at most MaxSigners holders
ThresholdSignQuorum ==
    /\ pc = "shared"
    /\ shr.kind = "ok"
    /\ shr.n <= MaxSigners
    /\ \E message \in Messages, krand \in RandomNonces(TRUE) :
         LET shares == SubSeq(shr.shares, 1, shr.t)
         IN
         \E o \in ThresholdOracles(kecText, kec64, shares, message, TRUE, krand, shr.t) :
             /\ kecText' = o.T
             /\ kec64' = o.K
             /\ tsg' = [shares |-> shares, require_t |-> shr.t, msg |-> message,
                        det |-> TRUE]
                          @@ threshold_sign(o.T, o.K, shares, message, TRUE, krand, shr.t)
    /\ pc' = "tsigned"
    /\ UNCHANGED <<sgn, ver, shr, rec, sgn2, tsg2>>

\* a second threshold_sign(shares, message, deterministic=True, require_t=t) on
\* the same message, on some of the generated shares in any order
ThresholdSignAgain ==
    /\ pc = "tsigned"
    /\ tsg.kind = "ok"
    /\ tsg.det
    /\ \E p \in Picks(shr.n), krand \in RandomNonces(TRUE) :
         LET shares == [i \in 1..Len(p) |-> shr.shares[p[i]]]
         IN
         \E o \in ThresholdOracles(kecText, kec64, shares, tsg.msg, TRUE, krand, shr.t) :
             /\ kecText' = o.T
             /\ kec64' = o.K
             /\ tsg2' = [shares |-> shares, require_t |-> shr.t, msg |-> tsg.msg,
                         det |-> TRUE]
                           @@ threshold_sign(o.T, o.K, shares, tsg.msg, TRUE, krand, shr.t)
    /\ pc' = "tsigned2"
    /\ UNCHANGED <<sgn, ver, shr, rec, tsg, sgn2>>

NextSchnorr ==
    \/ SignMessage
    \/ VerifySigned
    \/ VerifyAny

NextShamir ==
    \/ GenerateShares
    \/ ReconstructSecret
    \/ ReconstructAny

NextThreshold ==
    \/ GenerateShares
    \/ ReconstructSecret
    \/ ThresholdSign

NextDeterminism ==
    \/ SignMessage
    \/ SignAgain
    \/ GenerateShares
    \/ ThresholdSignQuorum
    \/ ThresholdSignAgain

SpecSchnorr == Init /\ [][NextSchnorr]_vars

SpecShamir == Init /\ [][NextShamir]_vars

SpecThreshold == Init /\ [][NextThreshold]_vars

SpecDeterminism == Init /\ [][NextDeterminism]_vars
-----------------------------------------------------------------------------
(* Properties *)

\* pub = G^priv mod P of the key that signed
SignerPub == pow(GENERATOR, sgn.priv, PRIME)

\* C1: for every private key 0 < priv < P, message and nonce, the signature
\* that sign_message returns is accepted by verify_signature under
\* pub = G^priv mod P.
C1_SignThenVerify ==
    (pc = "signed" /\ sgn.kind = "ok")
        => verify_signature(kecText, kec64, SignerPub, sgn.msg, sgn.r, sgn.s) = "true"

\* the shares handed to the last reconstruct_secret are >= t of the generated ones
EnoughGenerated(shares) == shr.kind = "ok" /\ Len(shares) >= shr.t

\* C2: reconstruct_secret on any k of the n shares of generate_shares(secret,
\* n, t), t <= k <= n, in any order, returns exactly secret.
C2_RoundTrip ==
    (pc = "reconstructed" /\ EnoughGenerated(rec.shares)
        /\ (rec.require_t = None \/ Len(rec.shares) >= rec.require_t))
        => (rec.kind = "ok" /\ rec.value = shr.secret)

\* C2 witness: two shares of a 2-of-3 sharing, the last share first, give the
\* secret back.
C2_Witness ==
    /\ pc = "reconstructed" /\ shr.kind = "ok" /\ shr.n = 3 /\ shr.t = 2
    /\ Len(rec.shares) = 2 /\ rec.shares[1][1] = 3 /\ rec.shares[2][1] = 1
    /\ rec.kind = "ok" /\ rec.value = shr.secret

\* C3: threshold_sign on at least t of the generated shares returns (r, s,
\* digest) that verify_signature accepts under pubkey_from_secret(secret),
\* and digest is the digest of the message.
C3_ThresholdSignVerifies ==
    (pc = "tsigned" /\ EnoughGenerated(tsg.shares) /\ tsg.kind = "ok")
        => /\ verify_signature(kecText, kec64, pubkey_from_secret(shr.secret).value,
                               tsg.msg, tsg.r, tsg.s) = "true"
           /\ tsg.msg_hash = keccak_message(kecText, tsg.msg)

\* the arguments of the last verify_signature that differ from the signed ones
Replaced ==
    {i \in 1..4 : <<ver.pub, ver.msg, ver.r, ver.s>>[i]
                    # <<SignerPub, sgn.msg, sgn.r, sgn.s>>[i]}

C5_VerifyTotal ==
    pc = "verified"
        => /\ ver.result \in {"true", "false"}
           /\ (ver.pub \notin 1..(PRIME - 1) \/ ver.r \notin 1..(PRIME - 1)
                 \/ ver.s \notin 1..(PRIME - 2)) => ver.result = "false"

\* C5 witness: pub = P with r and s in range is rejected.
C5_Witness ==
    /\ pc = "verified" /\ sgn.kind = "none"
    /\ ver.pub = PRIME /\ ver.r \in 1..(PRIME - 1) /\ ver.s \in 1..(PRIME - 2)
    /\ ver.result = "false"

\* the number of coefficient lists generate_shares can draw for which the
\* polynomial with constant term `secret` passes through the generated
\* shares at the x-coordinates xs
NumChoices(secret, xs) ==
    Cardinality({rnd \in [1..(shr.t - 1) -> CoeffDomain] :
        \A x \in xs : _eval_poly(<<secret>> \o rnd, x) = shr.shares[x][2]})

\* C6: for t >= 2, the shares seen at fewer than t x-coordinates are produced
\* by the same number of coefficient choices whatever the secret in
\* [1, P-1] is.
C6_NoLeakBelowThreshold ==
    (pc = "shared" /\ shr.kind = "ok" /\ shr.t >= 2)
        => \A xs \in SUBSET (1..shr.n) :
             Cardinality(xs) < shr.t
                => \A s1, s2 \in 1..(PRIME - 1) : NumChoices(s1, xs) = NumChoices(s2, xs)

\* C7: with require_t given and fewer shares than require_t, both
\* reconstruct_secret and threshold_sign raise InsufficientSharesError and
\* produce nothing; with exactly require_t = t of the generated shares both
\* succeed.
C7_ThresholdEnforced ==
    /\ (pc = "reconstructed" /\ rec.require_t # None /\ Len(rec.shares) < rec.require_t)
          => (rec.kind = "InsufficientSharesError" /\ rec.value = 0)
    /\ (pc = "tsigned" /\ tsg.require_t # None /\ Len(tsg.shares) < tsg.require_t)
          => (tsg.kind = "InsufficientSharesError" /\ tsg.r = 0 /\ tsg.s = 0)
    /\ (pc = "reconstructed" /\ shr.kind = "ok" /\ rec.require_t = shr.t
          /\ Len(rec.shares) = shr.t) => rec.kind = "ok"
    /\ (pc = "tsigned" /\ shr.kind = "ok" /\ tsg.require_t = shr.t
          /\ Len(tsg.shares) = shr.t) => tsg.kind = "ok"

\* C7 witness: threshold_sign refuses one share of a sharing with t = 2.
C7_Witness ==
    /\ pc = "tsigned" /\ shr.kind = "ok" /\ shr.t = 2
    /\ tsg.require_t = 2 /\ Len(tsg.shares) = 1
    /\ tsg.kind = "InsufficientSharesError"

\* some x is zero, or two shares have the same x
ZeroOrDuplicateX(shares) ==
    \/ \E i \in 1..Len(shares) : shares[i][1] = 0
    \/ \E i, j \in 1..Len(shares) : i # j /\ shares[i][1] = shares[j][1]

\* C8 (as stated): reconstruct_secret fails with
\* DuplicateOrZeroCoordinateError for every non-empty share list in which
\* some x is zero or two shares have the same x.
C8_ZeroOrDuplicateRejected ==
    (pc = "reconstructed" /\ rec.shares # <<>> /\ ZeroOrDuplicateX(rec.shares))
        => rec.kind = "DuplicateOrZeroCoordinateError"

\* C8 (amended): for such a list reconstruct_secret returns no value; it
\* fails with InsufficientSharesError when require_t is given and exceeds
\* the number of shares, and with DuplicateOrZeroCoordinateError otherwise.
C8_ZeroOrDuplicateNeverReconstructs ==
    (pc = "reconstructed" /\ rec.shares # <<>> /\ ZeroOrDuplicateX(rec.shares))
        => /\ rec.value = 0
           /\ rec.kind = IF rec.require_t # None /\ Len(rec.shares) < rec.require_t
                         THEN "InsufficientSharesError"
                         ELSE "DuplicateOrZeroCoordinateError"

\* C8 witness: two shares with the same non-zero x and different y are
\* rejected.
C8_Witness ==
    /\ pc = "reconstructed" /\ Len(rec.shares) = 2 /\ rec.require_t = None
    /\ rec.shares[1][1] = rec.shares[2][1] /\ rec.shares[1][1] # 0
    /\ rec.shares[1][2] # rec.shares[2][2]
    /\ rec.kind = "DuplicateOrZeroCoordinateError"

\* C9: every signature sign_message returns has r in [1, P-1] and s in
\* [1, P-2].
C9_SignatureInRange ==
    (pc = "signed" /\ sgn.kind = "ok")
        => (sgn.r \in 1..(PRIME - 1) /\ sgn.s \in 1..(PRIME - 2))

\* generate_shares accepts the recorded arguments
Accepted == 1 <= shr.t /\ shr.t <= shr.n /\ 0 < shr.secret /\ shr.secret < PRIME

\* C10 (as stated): for accepted input generate_shares returns n shares with
\* x = 1..n and every y in [1, P-1].
C10_SharesAreScalars ==
    (pc = "shared" /\ Accepted)
        => /\ shr.kind = "ok" /\ Len(shr.shares) = shr.n
           /\ \A i \in 1..Len(shr.shares) :
                shr.shares[i][1] = i /\ shr.shares[i][2] \in 1..(PRIME - 1)

\* C10 (amended): for accepted input generate_shares returns n shares with
\* x = 1..n and every y in [0, P-1].
C10_SharesAreResidues ==
    (pc = "shared" /\ Accepted)
        => /\ shr.kind = "ok" /\ Len(shr.shares) = shr.n
           /\ \A i \in 1..Len(shr.shares) :
                shr.shares[i][1] = i /\ shr.shares[i][2] \in 0..(PRIME - 1)

\* C10 witness: a 2-of-3 sharing one of whose shares has y = 0.
C10_Witness ==
    /\ pc = "shared" /\ shr.kind = "ok" /\ shr.n = 3 /\ shr.t = 2
    /\ \E i \in 1..3 : shr.shares[i] = <<i, 0>>
C12_NoZeroDenominator ==
    (pc = "reconstructed" /\ rec.shares # <<>>)
        => LET x_s == [i \in 1..Len(rec.shares) |-> rec.shares[i][1]]
               zero == \E i \in 1..Len(x_s) : Denom(x_s, i) = 0
           IN  /\ (~ZeroOrDuplicateX(rec.shares)) => ~zero
               /\ zero => rec.kind # "ok"
               /\ (zero /\ ~ZeroOrDuplicateX(rec.shares)
                     /\ ~(rec.require_t # None /\ Len(rec.shares) < rec.require_t))
                     => rec.kind = "DivisionError"
\* C13: in both nonce modes the nonce k of sign_message lies in [1, P-2],
\* never 0, so the r = G^k mod P it returns is never 1.
C13_NonceNeverZero ==
    (pc = "signed" /\ sgn.kind = "ok")
        => (sgn.k \in 1..(PRIME - 2) /\ sgn.r # 1)

\* C13 witness: a deterministic signature whose seed is 0 mod (P-2), the
\* case in which only the + 1 keeps the nonce from being 0.
C13_Witness ==
    /\ pc = "signed" /\ sgn.kind = "ok" /\ sgn.det
    /\ kec64[<<sgn.priv, kecText[sgn.msg]>>] % (PRIME - 2) = 0
    /\ sgn.k = 1 /\ sgn.r = GENERATOR
====
